---- MODULE Spec2Model ----
(***************************************************************************)
(* dagstore-kv-backend: many sorted (multihash -> offset) indices are      *)
(* flattened into one ordered key/value store (db.go) by an importer       *)
(* (main.go: storeIndex, loadIndexFromDb, compareIndices).                 *)
(*                                                                         *)
(* Bytes are naturals 0..255, strings and []byte are sequences of bytes.   *)
(* A uint64 is the tuple of its ten 7-bit groups, least significant first  *)
(* (the groups binary.PutUvarint emits); the tenth group holds bit 63.     *)
(***************************************************************************)
EXTENDS Naturals, Integers, Sequences, FiniteSets, TLC

(* ------------------------------ bounds --------------------------------- *)
\* imports (storeIndex calls) started in one run
MaxImports == 2
\* entries of a source index
MaxEntries == 2

(* ------------------------------ uint64 --------------------------------- *)
\* binary.MaxVarintLen64
size == 10
cutsize == size + 2

Top(i) == IF i = size THEN 1 ELSE 127

RECURSIVE Shr7(_, _)
Shr7(n, k) == IF k = 0 THEN n ELSE Shr7(n \div 128, k - 1)

\* the uint64 of a small natural
U64(n) == [i \in 1..size |-> Shr7(n, i - 1) % 128]

MaxUint64 == [i \in 1..size |-> Top(i)]

\* cursor+2: the counter is advanced twice
PlusTwo(x) ==
    LET Inc(y) == [i \in 1..size |->
                      IF \A j \in 1..(i - 1) : y[j] = Top(j)
                      THEN (IF y[i] = Top(i) THEN 0 ELSE y[i] + 1)
                      ELSE y[i]]
    IN  Inc(Inc(x))

\* the counter is written back as it was read
PlusNone(x) == x

\* cursor+1 in uint64 arithmetic: the carry runs through the groups and is
\* dropped past bit 63
PlusOne(x) ==
    [i \in 1..size |->
        IF \A j \in 1..(i - 1) : x[j] = Top(j)
        THEN (IF x[i] = Top(i) THEN 0 ELSE x[i] + 1)
        ELSE x[i]]

\* x < y on uint64
Less(x, y) ==
    \E i \in 1..size :
        /\ x[i] < y[i]
        /\ \A j \in (i + 1)..size : x[j] = y[j]

(* ------------------------------ varint --------------------------------- *)
\* number of bytes PutUvarint writes
VarintLen(x) ==
    IF \A i \in 1..size : x[i] = 0 THEN 1
    ELSE CHOOSE n \in 1..size : x[n] # 0 /\ \A j \in (n + 1)..size : x[j] = 0

\* the value is cut to the bytes PutUvarint wrote: buf[:n]
PutUvarintCut(x) ==
    LET n == VarintLen(x)
    IN  [i \in 1..n |-> IF i < n THEN x[i] + 128 ELSE x[i]]

\* only the low seven bits of x reach the buffer
PutUvarintLow(x) == [i \in 1..size |-> IF i = 1 THEN x[1] ELSE 0]

\* buf := make([]byte, size); binary.PutUvarint(buf, x)
PutUvarint(x) ==
    LET n == VarintLen(x)
    IN  [i \in 1..size |->
            IF i < n THEN x[i] + 128
            ELSE IF i = n THEN x[i]
            ELSE 0]

\* x, _ := binary.Uvarint(b): 0 on a short buffer or an overflow
Uvarint(b) ==
    LET ends == {i \in 1..Len(b) : b[i] < 128}
    IN  IF ends = {} THEN U64(0)
        ELSE LET n == CHOOSE i \in ends : \A j \in ends : i <= j
             IN  IF n > size \/ (n = size /\ b[n] > 1) THEN U64(0)
                 ELSE [i \in 1..size |->
                          IF i < n THEN b[i] - 128
                          ELSE IF i = n THEN b[n]
                          ELSE 0]

(* --------------------------- datastore keys ---------------------------- *)
SLASH == 47
DOT == 46

\* the components of a path between slashes, empty ones included: the
\* component that began at start is cut at the slash found at i
RECURSIVE SplitFrom(_, _, _)
SplitFrom(s, i, start) ==
    IF i > Len(s) THEN <<SubSeq(s, start, Len(s))>>
    ELSE IF s[i] = SLASH
         THEN <<SubSeq(s, start, i - 1)>> \o SplitFrom(s, i + 1, i + 1)
         ELSE SplitFrom(s, i + 1, start)

Split(s) == SplitFrom(s, 1, 1)

\* path.Clean of a rooted path, component by component
RECURSIVE CleanParts(_, _)
CleanParts(parts, acc) ==
    IF parts = <<>> THEN acc
    ELSE LET c == Head(parts)
         IN  IF c = <<>> \/ c = <<DOT>> THEN CleanParts(Tail(parts), acc)
             ELSE IF c = <<DOT, DOT>>
                  THEN CleanParts(Tail(parts),
                                  IF acc = <<>> THEN acc
                                  ELSE SubSeq(acc, 1, Len(acc) - 1))
                  ELSE CleanParts(Tail(parts), Append(acc, c))

RECURSIVE Join(_)
Join(parts) ==
    IF parts = <<>> THEN <<>>
    ELSE <<SLASH>> \o Head(parts) \o Join(Tail(parts))

\* datastore.NewKey(s): the key is rooted and cleaned
NewKey(s) ==
    LET parts == CleanParts(Split(s), <<>>)
    IN  IF parts = <<>> THEN <<SLASH>> ELSE Join(parts)

HasPrefix(k, p) == Len(k) >= Len(p) /\ SubSeq(k, 1, Len(p)) = p

\* bytes.Compare(a, b) < 0
RECURSIVE BytesLess(_, _)
BytesLess(a, b) ==
    IF b = <<>> THEN FALSE
    ELSE IF a = <<>> THEN TRUE
    ELSE IF a[1] # b[1] THEN a[1] < b[1]
    ELSE BytesLess(Tail(a), Tail(b))

(* ------------------------- content identifiers ------------------------- *)
\* the pieces of a run, and pieceCid.String() of each (a base32 text)
PieceCids == {"P1", "P2"}

CidString(pieceCid) ==
    IF pieceCid = "P1" THEN <<98, 97, 103, 97>> ELSE <<98, 97, 103, 98>>

\* the blocks of the indexed CAR files, <<multihash, offset>>, a multihash
\* being <<code, length, digest>> of one code and one digest width: one
\* block occurs at two offsets
Records ==
    {<<<<18, 1, 10>>, U64(0)>>, <<<<18, 1, 10>>, U64(512)>>,
     <<<<18, 1, 47>>, U64(1024)>>}

HexDigit(n) == IF n < 10 THEN 48 + n ELSE 87 + n

\* m.String(): the lower-case hex text of the multihash bytes
RECURSIVE HexString(_)
HexString(m) ==
    IF m = <<>> THEN <<>>
    ELSE <<HexDigit(m[1] \div 16), HexDigit(m[1] % 16)>> \o HexString(Tail(m))

IsHex(c) == (c >= 48 /\ c <= 57) \/ (c >= 97 /\ c <= 102)
HexValue(c) == IF c <= 57 THEN c - 48 ELSE c - 87

RECURSIVE HexDecode(_)
HexDecode(k) ==
    IF k = <<>> THEN <<>>
    ELSE <<HexValue(k[1]) * 16 + HexValue(k[2])>> \o HexDecode(Tail(Tail(k)))

\* multihash.FromHexString(k): hex decoding, then the length check of Cast
FromHexString(k) ==
    IF Len(k) % 2 # 0 \/ \E i \in 1..Len(k) : ~IsHex(k[i])
    THEN [err |-> "hex", m |-> <<>>]
    ELSE LET m == HexDecode(k)
         IN  IF Len(m) < 2 \/ m[2] # Len(m) - 2
             THEN [err |-> "multihash", m |-> <<>>]
             ELSE [err |-> "nil", m |-> m]

(* ------------------------------ the store ------------------------------ *)
\* a datastore is a function from the keys it holds to their values
EmptyStore == [k \in {} |-> <<>>]

\* a put that leaves the value of a key the store already holds
PutIfAbsent(s, key, value) ==
    [k \in (DOMAIN s) \cup {key} |-> IF k \in DOMAIN s THEN s[k] ELSE value]

Put(s, key, value) ==
    [k \in (DOMAIN s) \cup {key} |-> IF k = key THEN value ELSE s[k]]

Get(s, key) ==
    IF key \in DOMAIN s THEN [err |-> "nil", b |-> s[key]]
    ELSE [err |-> "ErrNotFound", b |-> <<>>]

\* leveldb Query with q.Prefix: the keys under NewKey(prefix) + "/"; every
\* key when the cleaned prefix is the root
QueryKeys(s, prefix) ==
    LET p == NewKey(prefix)
    IN  IF p = <<SLASH>> THEN DOMAIN s
        ELSE {k \in DOMAIN s : HasPrefix(k, p \o <<SLASH>>)}

\* the results of a query come in key order
RECURSIVE InKeyOrder(_)
InKeyOrder(keys) ==
    IF keys = {} THEN <<>>
    ELSE LET k == CHOOSE x \in keys : \A y \in keys : ~BytesLess(y, x)
         IN  <<k>> \o InKeyOrder(keys \ {k})

(* -------------------------------- db.go -------------------------------- *)
keyNextCursor == U64(0)
prefixPieceCidToCursor == U64(1)

dskeyNextCursor == NewKey(PutUvarint(keyNextCursor))
sprefixPieceCidToCursor == PutUvarint(prefixPieceCidToCursor)

\* the error of the Get is dropped: the cursor is decoded from what came back
NextCursorUnchecked(s) ==
    LET r == Get(s, dskeyNextCursor)
    IN  [err |-> "nil", cursor |-> Uvarint(r.b), prefix |-> r.b \o <<SLASH>>]

NextCursor(s) ==
    LET r == Get(s, dskeyNextCursor)
    IN  IF r.err # "nil"
        THEN [err |-> r.err, cursor |-> U64(0), prefix |-> <<>>]
        ELSE [err |-> "nil", cursor |-> Uvarint(r.b),
              prefix |-> r.b \o <<SLASH>>]

SetNextCursor(s, cursor) == Put(s, dskeyNextCursor, PutUvarint(cursor))

\* the registry key without the piece
PieceKeyBare(pieceCid) == NewKey(sprefixPieceCidToCursor)

PieceKey(pieceCid) == NewKey(sprefixPieceCidToCursor \o CidString(pieceCid))

\* the cursor of the piece is put under the key of SetNextCursor
SetPieceCidToSystemKey(s, pieceCid, cursor) ==
    Put(s, dskeyNextCursor, PutUvarint(cursor))

\* the registry entry is not written
SetPieceCidToNothing(s, pieceCid, cursor) == s

\* the piece is bound to the advanced counter, not to the cursor obtained
SetPieceCidToNext(s, pieceCid, cursor) ==
    Put(s, PieceKey(pieceCid), PutUvarint(PlusOne(cursor)))

SetPieceCidToCursor(s, pieceCid, cursor) ==
    Put(s, PieceKey(pieceCid), PutUvarint(cursor))

GetPieceCidToCursor(s, pieceCid) ==
    LET r == Get(s, PieceKey(pieceCid))
    IN  IF r.err # "nil" THEN [err |-> r.err, cursor |-> U64(0)]
        ELSE [err |-> "nil", cursor |-> Uvarint(r.b)]

OffsetKey(cursorPrefix, m) == NewKey(cursorPrefix \o HexString(m))

AddOffset(s, cursorPrefix, m, offset) ==
    Put(s, OffsetKey(cursorPrefix, m), PutUvarint(offset))

GetOffset(s, cursorPrefix, m) ==
    LET r == Get(s, OffsetKey(cursorPrefix, m))
    IN  IF r.err # "nil" THEN [err |-> r.err, offset |-> U64(0)]
        ELSE [err |-> "nil", offset |-> Uvarint(r.b)]

\* one result of the scan: the key is cut after the prefix, the rest parsed
\* as a multihash; a short key or an unparsable rest panics
RecordOf(s, key) ==
    IF Len(key) < cutsize THEN [panic |-> TRUE, rec |-> <<>>]
    ELSE LET r == FromHexString(SubSeq(key, cutsize + 1, Len(key)))
         IN  IF r.err # "nil" THEN [panic |-> TRUE, rec |-> <<>>]
             ELSE [panic |-> FALSE, rec |-> <<r.m, Uvarint(s[key])>>]

AllRecords(s, cursor) ==
    LET keys == InKeyOrder(QueryKeys(s, PutUvarint(cursor)))
        res  == [i \in 1..Len(keys) |-> RecordOf(s, keys[i])]
    IN  IF \E i \in 1..Len(keys) : res[i].panic
        THEN [panic |-> TRUE, records |-> <<>>]
        ELSE [panic |-> FALSE,
              records |-> [i \in 1..Len(keys) |-> res[i].rec]]

(* ------------------------------ the index ------------------------------ *)
\* an index entry is <<multihash, offset>>; an index holds its entries sorted
\* by digest (one bucket: the hashes share code and width)
Digest(m) == SubSeq(m, 3, Len(m))

\* recordSet.Less: by digest bytes
RecordLess(r1, r2) == BytesLess(Digest(r1[1]), Digest(r2[1]))

\* insertion sort step: r moves left while it is less than its predecessor
RECURSIVE InsertRecord(_, _)
InsertRecord(sorted, r) ==
    IF sorted = <<>> THEN <<r>>
    ELSE LET last == sorted[Len(sorted)]
         IN  IF RecordLess(r, last)
             THEN Append(InsertRecord(SubSeq(sorted, 1, Len(sorted) - 1), r),
                         last)
             ELSE Append(sorted, r)

\* mis.Load(records)
RECURSIVE Load(_)
Load(records) ==
    IF records = <<>> THEN <<>>
    ELSE InsertRecord(Load(SubSeq(records, 1, Len(records) - 1)),
                      records[Len(records)])

IsSorted(idx) == \A i \in 1..(Len(idx) - 1) : ~RecordLess(idx[i + 1], idx[i])

\* the source indices: sorted, their (hash, offset) pairs unique
RECURSIVE SeqsUpTo(_, _)
SeqsUpTo(S, n) ==
    IF n = 0 THEN {<<>>}
    ELSE LET shorter == SeqsUpTo(S, n - 1)
         IN  shorter \cup {Append(q, x) : q \in shorter, x \in S}

Indices ==
    {idx \in SeqsUpTo(Records, MaxEntries) :
        /\ IsSorted(idx)
        /\ \A i, j \in 1..Len(idx) : i # j => idx[i] # idx[j]}

Entries(idx) == {idx[i] : i \in 1..Len(idx)}

(* ---------------------------- serialization ---------------------------- *)
RECURSIVE Shr8(_, _)
Shr8(n, k) == IF k = 0 THEN n ELSE Shr8(n \div 256, k - 1)

\* binary.Write(w, binary.LittleEndian, n) of a w-byte integer
LittleEndian(n, w) == [i \in 1..w |-> Shr8(n, i - 1) % 256]

Pow2(k) == IF k = 0 THEN 1 ELSE IF k = 1 THEN 2 ELSE IF k = 2 THEN 4
           ELSE IF k = 3 THEN 8 ELSE IF k = 4 THEN 16 ELSE IF k = 5 THEN 32
           ELSE IF k = 6 THEN 64 ELSE 128

\* bit j (from 0) of a uint64
Bit(x, j) == (x[(j \div 7) + 1] \div Pow2(j % 7)) % 2

\* the eight little-endian bytes of a uint64
LittleEndian64(x) ==
    [k \in 1..8 |->
        Bit(x, 8 * (k - 1)) + 2 * Bit(x, 8 * (k - 1) + 1)
        + 4 * Bit(x, 8 * (k - 1) + 2) + 8 * Bit(x, 8 * (k - 1) + 3)
        + 16 * Bit(x, 8 * (k - 1) + 4) + 32 * Bit(x, 8 * (k - 1) + 5)
        + 64 * Bit(x, 8 * (k - 1) + 6) + 128 * Bit(x, 8 * (k - 1) + 7)]

\* the compacted bucket: digest, then offset, entry after entry
RECURSIVE BucketBytes(_)
BucketBytes(idx) ==
    IF idx = <<>> THEN <<>>
    ELSE Digest(idx[1][1]) \o LittleEndian64(idx[1][2]) \o BucketBytes(Tail(idx))

\* idx.Marshal(w): the sequence of Write calls it makes on w
Marshal(idx) ==
    IF idx = <<>> THEN << LittleEndian(0, 4) >>
    ELSE LET m == idx[1][1]
             bucket == BucketBytes(idx)
         IN  << LittleEndian(1, 4),
                LittleEndian(m[1], 8),
                LittleEndian(1, 4),
                LittleEndian(Len(Digest(m)) + 8, 4),
                LittleEndian(Len(bucket), 8),
                bucket >>

RECURSIVE Concat(_)
Concat(chunks) ==
    IF chunks = <<>> THEN <<>> ELSE Head(chunks) \o Concat(Tail(chunks))

\* the canonical serialization of an index
Serialize(idx) == Concat(Marshal(idx))

(* ----------------------------- bufio.Writer ---------------------------- *)
\* bufio.NewWriter: a buffer of the default size before the bytes.Buffer
defaultBufSize == 4096

NewWriter == [out |-> <<>>, buf |-> <<>>]

\* (*bufio.Writer).Write(p)
RECURSIVE Write(_, _)
Write(w, p) ==
    LET avail == defaultBufSize - Len(w.buf)
    IN  IF Len(p) > avail
        THEN IF w.buf = <<>>
             THEN [out |-> w.out \o p, buf |-> <<>>]
             ELSE Write([out |-> w.out \o w.buf \o SubSeq(p, 1, avail),
                         buf |-> <<>>],
                        SubSeq(p, avail + 1, Len(p)))
        ELSE [out |-> w.out, buf |-> w.buf \o p]

RECURSIVE WriteAll(_, _)
WriteAll(w, chunks) ==
    IF chunks = <<>> THEN w
    ELSE WriteAll(Write(w, Head(chunks)), Tail(chunks))

\* b.Bytes() after subject.Marshal(w): what the writer passed on
MarshalledBytes(idx) == WriteAll(NewWriter, Marshal(idx)).out

compareIndices(subject, subjectDb) ==
    MarshalledBytes(subject) = MarshalledBytes(subjectDb)

(* ------------------------------- state --------------------------------- *)
\* the goroutines that call into the importer
Procs == {1, 2}

\* the values main may seed the counter with (main.go uses 100)
Starts == {U64(100), U64(6015), MaxUint64}

NoPiece == "none"

VARIABLES
    phase,            \* "boot" before main prepared the db, then "run"
    store,            \* the datastore: key -> value
    pc,               \* where each caller stands
    pieceCid,         \* argument of the call
    subject,          \* the source index of a storeIndex call
    iterable,         \* whether subject is an index.IterableIndex
    cursor,           \* storeIndex: cursor; loadIndexFromDb: cursor
    keyCursorPrefix,  \* storeIndex: keyCursorPrefix
    pos,              \* ForEach: entries of subject already visited
    callId,           \* number of the storeIndex call, 0 outside one
    subjectDb,        \* the index loadIndexFromDb rebuilt
    ok,               \* result of compareIndices
    err,              \* error the caller's last call returned
    op,               \* the caller's last call: storeIndex or loadIndexFromDb
    imports,          \* storeIndex calls started
    obtained,         \* cursors of the calls that read and advanced the counter
    written,          \* namespace entries put: [call, cursor, m, key]
    bound             \* pieces a registry entry was put for

vars == <<phase, store, pc, pieceCid, subject, iterable, cursor,
          keyCursorPrefix, pos, callId, subjectDb, ok, err, op, imports,
          obtained, written, bound>>

\* what only the calls of storeIndex change
history == <<imports, obtained, written, bound>>

locals == <<pieceCid, subject, iterable, cursor, keyCursorPrefix, pos, callId,
            subjectDb, ok>>

Init ==
    /\ phase = "boot"
    /\ store = EmptyStore
    /\ pc = [p \in Procs |-> "idle"]
    /\ pieceCid = [p \in Procs |-> NoPiece]
    /\ subject = [p \in Procs |-> <<>>]
    /\ iterable = [p \in Procs |-> FALSE]
    /\ cursor = [p \in Procs |-> U64(0)]
    /\ keyCursorPrefix = [p \in Procs |-> <<>>]
    /\ pos = [p \in Procs |-> 0]
    /\ callId = [p \in Procs |-> 0]
    /\ subjectDb = [p \in Procs |-> <<>>]
    /\ ok = [p \in Procs |-> FALSE]
    /\ err = [p \in Procs |-> "none"]
    /\ op = [p \in Procs |-> "none"]
    /\ imports = 0
    /\ obtained = <<>>
    /\ written = {}
    /\ bound = {}

\* the call of p returns e: its locals die with it
Return(p, e) ==
    /\ pc' = [pc EXCEPT ![p] = "idle"]
    /\ err' = [err EXCEPT ![p] = e]
    /\ pieceCid' = [pieceCid EXCEPT ![p] = NoPiece]
    /\ subject' = [subject EXCEPT ![p] = <<>>]
    /\ iterable' = [iterable EXCEPT ![p] = FALSE]
    /\ cursor' = [cursor EXCEPT ![p] = U64(0)]
    /\ keyCursorPrefix' = [keyCursorPrefix EXCEPT ![p] = <<>>]
    /\ pos' = [pos EXCEPT ![p] = 0]
    /\ callId' = [callId EXCEPT ![p] = 0]
    /\ subjectDb' = [subjectDb EXCEPT ![p] = <<>>]
    /\ ok' = [ok EXCEPT ![p] = FALSE]

(* ------------------------------- main.go ------------------------------- *)
\* main: db.SetNextCursor(ctx, 100); the error of the Put is dropped
Prepare(start, fail) ==
    /\ phase = "boot"
    /\ phase' = "run"
    /\ store' = IF fail THEN store ELSE SetNextCursor(store, start)
    /\ UNCHANGED <<pc, locals, err, op, history>>

\* storeIndex(ctx, pieceCid, subject, db) is called; it tells whether the
\* dynamic type of subject implements index.IterableIndex
CallStoreIndex(p, c, idx, it) ==
    /\ phase = "run"
    /\ pc[p] = "idle"
    /\ imports < MaxImports
    /\ imports' = imports + 1
    /\ callId' = [callId EXCEPT ![p] = imports + 1]
    /\ pc' = [pc EXCEPT ![p] = "NextCursor"]
    /\ pieceCid' = [pieceCid EXCEPT ![p] = c]
    /\ subject' = [subject EXCEPT ![p] = idx]
    /\ iterable' = [iterable EXCEPT ![p] = it]
    /\ err' = [err EXCEPT ![p] = "none"]
    /\ op' = [op EXCEPT ![p] = "storeIndex"]
    /\ UNCHANGED <<phase, store, cursor, keyCursorPrefix, pos, subjectDb, ok,
                   obtained, written, bound>>

\* cursor, keyCursorPrefix, err := db.NextCursor(ctx)
StoreNextCursor(p, fail) ==
    /\ phase = "run"
    /\ pc[p] = "NextCursor"
    /\ LET r == NextCursor(store)
       IN  IF fail \/ r.err # "nil"
           THEN Return(p, IF fail THEN "io" ELSE r.err)
           ELSE /\ pc' = [pc EXCEPT ![p] = "SetNextCursor"]
                /\ cursor' = [cursor EXCEPT ![p] = r.cursor]
                /\ keyCursorPrefix' = [keyCursorPrefix EXCEPT ![p] = r.prefix]
                /\ UNCHANGED <<pieceCid, subject, iterable, pos, callId,
                               subjectDb, ok, err>>
    /\ UNCHANGED <<phase, store, op, history>>

\* err = db.SetNextCursor(ctx, cursor+1)
StoreSetNextCursor(p, fail) ==
    /\ phase = "run"
    /\ pc[p] = "SetNextCursor"
    /\ IF fail
       THEN /\ Return(p, "io")
            /\ UNCHANGED <<store, obtained>>
       ELSE /\ store' = SetNextCursor(store, PlusOne(cursor[p]))
            /\ obtained' = Append(obtained, cursor[p])
            /\ pc' = [pc EXCEPT ![p] = "SetPieceCidToCursor"]
            /\ UNCHANGED <<locals, err>>
    /\ UNCHANGED <<phase, op, imports, written, bound>>

\* err = db.SetPieceCidToCursor(ctx, pieceCid, cursor)
StoreSetPieceCidToCursor(p, fail) ==
    /\ phase = "run"
    /\ pc[p] = "SetPieceCidToCursor"
    /\ IF fail
       THEN /\ Return(p, "io")
            /\ UNCHANGED <<store, bound>>
       ELSE /\ store' = SetPieceCidToCursor(store, pieceCid[p], cursor[p])
            /\ bound' = bound \cup {pieceCid[p]}
            /\ pc' = [pc EXCEPT ![p] = "ForEach"]
            /\ UNCHANGED <<locals, err>>
    /\ UNCHANGED <<phase, op, imports, obtained, written>>

\* one callback of idx.ForEach: db.AddOffset(ctx, keyCursorPrefix, m, offset)
StoreAddOffset(p, fail) ==
    /\ phase = "run"
    /\ pc[p] = "ForEach"
    /\ iterable[p]
    /\ pos[p] < Len(subject[p])
    /\ LET r == subject[p][pos[p] + 1]
       IN  IF fail
           THEN /\ Return(p, "io")
                /\ UNCHANGED <<store, written>>
           ELSE /\ store' = AddOffset(store, keyCursorPrefix[p], r[1], r[2])
                /\ written' = written \cup
                       {[call |-> callId[p], cursor |-> cursor[p], m |-> r[1],
                         key |-> OffsetKey(keyCursorPrefix[p], r[1])]}
                /\ pos' = [pos EXCEPT ![p] = pos[p] + 1]
                /\ UNCHANGED <<pc, pieceCid, subject, iterable, cursor,
                               keyCursorPrefix, callId, subjectDb, ok, err>>
    /\ UNCHANGED <<phase, op, imports, obtained, bound>>

\* err = db.Sync(ctx, datastore.NewKey(keyCursorPrefix)); return nil
StoreSync(p, fail) ==
    /\ phase = "run"
    /\ pc[p] = "ForEach"
    /\ iterable[p]
    /\ pos[p] = Len(subject[p])
    /\ IF fail
       THEN Return(p, "io")
       ELSE /\ pc' = [pc EXCEPT ![p] = "stored"]
            /\ err' = [err EXCEPT ![p] = "nil"]
            /\ UNCHANGED locals
    /\ UNCHANGED <<phase, store, op, history>>

\* switch idx := subject.(type) { default: panic(...) }: subject is not an
\* index.IterableIndex.  The panic ends the program.
StoreDefault(p) ==
    /\ phase = "run"
    /\ pc[p] = "ForEach"
    /\ ~iterable[p]
    /\ phase' = "exit"
    /\ pc' = [pc EXCEPT ![p] = "panic"]
    /\ UNCHANGED <<store, locals, err, op, history>>

\* storeIndex returned nil to a caller that goes on without reloading
StoreReturn(p) ==
    /\ phase = "run"
    /\ pc[p] = "stored"
    /\ Return(p, "nil")
    /\ UNCHANGED <<phase, store, op, history>>

\* main: subjectDb, err := loadIndexFromDb(ctx, db, pieceCid), for the piece
\* storeIndex just returned nil for
MainLoadIndexFromDb(p) ==
    /\ phase = "run"
    /\ pc[p] = "stored"
    /\ pc' = [pc EXCEPT ![p] = "GetPieceCidToCursor"]
    /\ err' = [err EXCEPT ![p] = "none"]
    /\ op' = [op EXCEPT ![p] = "loadIndexFromDb"]
    /\ UNCHANGED <<phase, store, locals, history>>

\* loadIndexFromDb(ctx, db, pieceCid) is called on its own, for any piece
CallLoadIndexFromDb(p, c) ==
    /\ phase = "run"
    /\ pc[p] = "idle"
    /\ pc' = [pc EXCEPT ![p] = "GetPieceCidToCursor"]
    /\ pieceCid' = [pieceCid EXCEPT ![p] = c]
    /\ err' = [err EXCEPT ![p] = "none"]
    /\ op' = [op EXCEPT ![p] = "loadIndexFromDb"]
    /\ UNCHANGED <<phase, store, subject, iterable, cursor, keyCursorPrefix,
                   pos, callId, subjectDb, ok, history>>

\* cursor, err := db.GetPieceCidToCursor(ctx, pieceCid)
LoadGetPieceCidToCursor(p, fail) ==
    /\ phase = "run"
    /\ pc[p] = "GetPieceCidToCursor"
    /\ LET r == GetPieceCidToCursor(store, pieceCid[p])
       IN  IF fail \/ r.err # "nil"
           THEN Return(p, IF fail THEN "io" ELSE r.err)
           ELSE /\ pc' = [pc EXCEPT ![p] = "AllRecords"]
                /\ cursor' = [cursor EXCEPT ![p] = r.cursor]
                /\ UNCHANGED <<pieceCid, subject, iterable, keyCursorPrefix,
                               pos, callId, subjectDb, ok, err>>
    /\ UNCHANGED <<phase, store, op, history>>

\* records, err := db.AllRecords(ctx, cursor); mis.Load(records).  A panic
\* of the scan ends the program.
LoadAllRecords(p, fail) ==
    /\ phase = "run"
    /\ pc[p] = "AllRecords"
    /\ LET r == AllRecords(store, cursor[p])
       IN  IF fail
           THEN /\ Return(p, "io")
                /\ UNCHANGED phase
           ELSE IF r.panic
           THEN /\ phase' = "exit"
                /\ pc' = [pc EXCEPT ![p] = "panic"]
                /\ UNCHANGED <<locals, err>>
           ELSE /\ pc' = [pc EXCEPT ![p] = "loaded"]
                /\ subjectDb' = [subjectDb EXCEPT ![p] = Load(r.records)]
                /\ err' = [err EXCEPT ![p] = "nil"]
                /\ UNCHANGED <<phase, pieceCid, subject, iterable, cursor,
                               keyCursorPrefix, pos, callId, ok>>
    /\ UNCHANGED <<store, op, history>>

\* r, ok := results.NextSync() hands out a result that carries an error of
\* the store in r.Error, its Entry empty.  AllRecords does not look at
\* r.Error and goes on to r.Key[cutsize:].
LoadNextSyncError(p) ==
    /\ phase = "run"
    /\ pc[p] = "AllRecords"
    /\ IF RecordOf(store, <<>>).panic
       THEN /\ phase' = "exit"
            /\ pc' = [pc EXCEPT ![p] = "panic"]
            /\ UNCHANGED <<locals, err>>
       ELSE /\ pc' = [pc EXCEPT ![p] = "loaded"]
            /\ subjectDb' = [subjectDb EXCEPT ![p] =
                                 Load(<<RecordOf(store, <<>>).rec>>)]
            /\ err' = [err EXCEPT ![p] = "nil"]
            /\ UNCHANGED <<phase, pieceCid, subject, iterable, cursor,
                           keyCursorPrefix, pos, callId, ok>>
    /\ UNCHANGED <<store, op, history>>

\* main: ok, err := compareIndices(subject, subjectDb)
Compare(p) ==
    /\ phase = "run"
    /\ pc[p] = "loaded"
    /\ callId[p] # 0
    /\ pc' = [pc EXCEPT ![p] = "compared"]
    /\ ok' = [ok EXCEPT ![p] = compareIndices(subject[p], subjectDb[p])]
    /\ UNCHANGED <<phase, store, pieceCid, subject, iterable, cursor,
                   keyCursorPrefix, pos, callId, subjectDb, err, op, history>>

\* main: if !ok { log.Fatal("compare failed") }, else on to the next piece;
\* a load called on its own returns its index
Done(p) ==
    /\ phase = "run"
    /\ \/ pc[p] = "compared"
       \/ pc[p] = "loaded" /\ callId[p] = 0
    /\ IF pc[p] = "compared" /\ ~ok[p]
       THEN /\ phase' = "exit"
            /\ pc' = [pc EXCEPT ![p] = "fatal"]
            /\ UNCHANGED <<locals, err>>
       ELSE /\ Return(p, "nil")
            /\ UNCHANGED phase
    /\ UNCHANGED <<store, op, history>>

(* --------------------------- specifications ---------------------------- *)
\* storeIndex for caller p: the call takes its index from Idxs, and a store
\* operation fails when Fails allows it
StoreIndex(p, Idxs, Fails) ==
    \/ \E c \in PieceCids, idx \in Idxs : CallStoreIndex(p, c, idx, TRUE)
    \/ \E c \in PieceCids : CallStoreIndex(p, c, <<>>, FALSE)
    \/ \E fail \in Fails : StoreNextCursor(p, fail)
    \/ \E fail \in Fails : StoreSetNextCursor(p, fail)
    \/ \E fail \in Fails : StoreSetPieceCidToCursor(p, fail)
    \/ \E fail \in Fails : StoreAddOffset(p, fail)
    \/ \E fail \in Fails : StoreSync(p, fail)
    \/ StoreDefault(p)

\* loadIndexFromDb for caller p, and main's comparison after it
LoadIndexFromDb(p, Fails) ==
    \/ \E fail \in Fails : LoadGetPieceCidToCursor(p, fail)
    \/ \E fail \in Fails : LoadAllRecords(p, fail)
    \/ \E fail \in Fails \ {FALSE} : LoadNextSyncError(p)
    \/ Compare(p)
    \/ Done(p)

Boot(From, Fails) == \E start \in From, fail \in Fails : Prepare(start, fail)

\* single-writer discipline, as in main: one caller, one call after the
\* other, each import followed by its reload and comparison
Next ==
    \/ Boot(Starts, BOOLEAN)
    \/ StoreIndex(1, Indices, BOOLEAN)
    \/ MainLoadIndexFromDb(1)
    \/ \E c \in PieceCids : CallLoadIndexFromDb(1, c)
    \/ LoadIndexFromDb(1, BOOLEAN)

Spec == Init /\ [][Next]_vars

\* the indices of the concurrent runs: at most one entry
ShortIndices == {idx \in Indices : Len(idx) <= 1}

\* callers of storeIndex run concurrently, nothing serializes them; the store
\* does not fail
NextConcurrent ==
    \/ Boot({U64(100)}, {FALSE})
    \/ \E p \in Procs : StoreIndex(p, ShortIndices, {FALSE}) \/ StoreReturn(p)

SpecConcurrent == Init /\ [][NextConcurrent]_vars

(* ------------------------------- claims -------------------------------- *)
Hundred == U64(100)

\* the calls that hold a cursor storeIndex obtained
HoldsCursor(p) ==
    pc[p] \in {"SetNextCursor", "SetPieceCidToCursor", "ForEach", "stored"}

\* main reloaded the piece it stored
Reloaded(p) == pc[p] \in {"loaded", "compared"} /\ callId[p] # 0

\* cursors to probe the key layout with: a first byte shared with cursor
\* 100, a '/' among the bytes, the largest value
ProbeCursors == {U64(228), U64(6016), MaxUint64}

\* the key prefix NextCursor hands out for cursor n
PrefixOf(n) == NextCursor(SetNextCursor(EmptyStore, n)).prefix

\* C1: after storeIndex(P, I) completed, loadIndexFromDb(P) rebuilds an index
\* with exactly the entries of I, and of the same serialization
C1_RoundTrip ==
    \A p \in Procs :
        Reloaded(p) =>
            /\ Entries(subjectDb[p]) = Entries(subject[p])
            /\ Serialize(subjectDb[p]) = Serialize(subject[p])

\* C2: compareIndices returns true if and only if the two complete
\* serializations are identical
C2_CompareIffIdentical ==
    \A p \in Procs :
        pc[p] = "compared" =>
            (ok[p] <=> Serialize(subject[p]) = Serialize(subjectDb[p]))

\* C3: an entry put under the prefix of a cursor n1 >= 100 is not returned
\* by AllRecords(n2) and not found by GetOffset under the prefix of n2, for
\* every other cursor n2 >= 100.  Entries enter the store in the ForEach
\* loop only, so the stores to look at are those of a call inside it.
C3_NamespaceDisjoint ==
    (\E p \in Procs : pc[p] = "ForEach") =>
        \A n2 \in ProbeCursors \cup {x.cursor : x \in written} :
            ~Less(n2, Hundred) =>
                LET prefix == PrefixOf(n2)
                IN  \A w \in written :
                        (~Less(w.cursor, Hundred) /\ n2 # w.cursor) =>
                            LET entry == [k \in {w.key} |-> store[w.key]]
                            IN  /\ AllRecords(entry, n2).records = <<>>
                                /\ GetOffset(entry, prefix, w.m).err
                                       = "ErrNotFound"

C3_Witness ==
    \E w1, w2 \in written :
        /\ w1.cursor # w2.cursor
        /\ ~Less(w1.cursor, Hundred) /\ ~Less(w2.cursor, Hundred)
        /\ \E p \in Procs : pc[p] = "ForEach"
        /\ Len(AllRecords(store, w1.cursor).records) > 0
        /\ Len(AllRecords(store, w2.cursor).records) > 0

\* C4: with the counter seeded at 100 or more, no storeIndex call obtains,
\* binds or writes under a cursor below 100
C4_ReservedRange ==
    /\ \A p \in Procs : HoldsCursor(p) => ~Less(cursor[p], Hundred)
    /\ \A i \in 1..Len(obtained) : ~Less(obtained[i], Hundred)
    /\ \A w \in written : ~Less(w.cursor, Hundred)
    /\ \A c \in bound : ~Less(GetPieceCidToCursor(store, c).cursor, Hundred)

\* C5: of two calls that read and advanced the counter, one after the other,
\* the later obtained the strictly greater cursor
C5_Monotonic ==
    \A i, j \in 1..Len(obtained) : i < j => Less(obtained[i], obtained[j])

\* C6: no two pieces are bound to the same cursor, and the entries of a
\* namespace were all written by one import
C6_UniqueNamespace ==
    /\ \A c1, c2 \in bound :
          c1 # c2 => GetPieceCidToCursor(store, c1).cursor
                         # GetPieceCidToCursor(store, c2).cursor
    /\ \A w1, w2 \in written : w1.cursor = w2.cursor => w1.call = w2.call
    /\ \A w \in written : \A k \in QueryKeys(store, PutUvarint(w.cursor)) :
          \E x \in written : x.key = k /\ x.call = w.call

C6_Witness ==
    /\ bound = PieceCids
    /\ \E w1, w2 \in written : w1.call # w2.call /\ w1.m = w2.m

\* C7: binding a piece again leaves only the latest cursor to be looked up,
\* and binding the same cursor twice is binding it once; tried on the store
\* of every call that has just bound its piece
C7_RegistryOverride ==
    \A p \in Procs :
        pc[p] \in {"ForEach", "stored"} =>
            /\ GetPieceCidToCursor(store, pieceCid[p])
                   = [err |-> "nil", cursor |-> cursor[p]]
            /\ \A c \in PieceCids : \A c2 \in {U64(228), MaxUint64} :
                  LET s2 == SetPieceCidToCursor(store, c, c2)
                  IN  /\ GetPieceCidToCursor(s2, c)
                             = [err |-> "nil", cursor |-> c2]
                      /\ SetPieceCidToCursor(s2, c, c2) = s2

\* the piece of the call was bound before, under the cursor of an earlier call
C7_Witness ==
    /\ pc[1] = "stored"
    /\ Len(obtained) = 2
    /\ bound = {pieceCid[1]}
    /\ \E w \in written : w.cursor = obtained[1] /\ w.cursor # cursor[1]
    /\ GetPieceCidToCursor(store, pieceCid[1]).cursor = obtained[2]

\* C8: a piece that was never bound is not found, and its load does not
\* reach the scan
C8_UnboundNotFound ==
    /\ \A c \in PieceCids \ bound :
          GetPieceCidToCursor(store, c).err = "ErrNotFound"
    /\ \A p \in Procs :
          pc[p] \in {"AllRecords", "loaded", "compared"} =>
              pieceCid[p] \in bound

C8_Witness ==
    /\ bound # {} /\ bound # PieceCids
    /\ written # {}
    /\ pc[1] = "idle"
    /\ op[1] = "loadIndexFromDb"
    /\ err[1] = "ErrNotFound"

\* C9: while the counter was never set, NextCursor fails, a storeIndex call
\* returns an error and the store holds nothing
C9_UninitializedFails ==
    dskeyNextCursor \notin DOMAIN store =>
        /\ NextCursor(store).err = "ErrNotFound"
        /\ store = EmptyStore
        /\ obtained = <<>> /\ written = {} /\ bound = {}
        /\ \A p \in Procs :
              op[p] = "storeIndex" =>
                  /\ pc[p] \in {"idle", "NextCursor"}
                  /\ pc[p] = "idle" => err[p] \in {"ErrNotFound", "io"}

C9_Witness ==
    /\ phase = "run"
    /\ store = EmptyStore
    /\ op[1] = "storeIndex"
    /\ pc[1] = "idle"
    /\ err[1] = "ErrNotFound"

\* two concurrent calls hold the same cursor
SameCursor(p, q) ==
    p # q /\ HoldsCursor(p) /\ HoldsCursor(q) /\ cursor[p] = cursor[q]

\* C10: two concurrent calls that read the same counter value both write
\* that value plus one, their pieces are bound to the one cursor and their
\* entries lie in the one namespace
C10_RaceDuplicates ==
    \A p, q \in Procs :
        SameCursor(p, q) =>
            /\ (pc[p] # "SetNextCursor" /\ pc[q] # "SetNextCursor") =>
                  NextCursor(store).cursor = PlusOne(cursor[p])
            /\ (pc[p] \in {"ForEach", "stored"} /\ pc[q] \in {"ForEach", "stored"}
                    /\ pieceCid[p] # pieceCid[q]) =>
                  /\ GetPieceCidToCursor(store, pieceCid[p]).cursor = cursor[p]
                  /\ GetPieceCidToCursor(store, pieceCid[q]).cursor = cursor[p]
            /\ (pc[p] = "stored" /\ pc[q] = "stored") =>
                  \A r \in Entries(subject[p]) \cup Entries(subject[q]) :
                      OffsetKey(keyCursorPrefix[p], r[1])
                          \in QueryKeys(store, PutUvarint(cursor[p]))

C10_Witness ==
    \E p, q \in Procs :
        /\ SameCursor(p, q)
        /\ pc[p] = "stored" /\ pc[q] = "stored"
        /\ pieceCid[p] # pieceCid[q]
        /\ subject[p] # <<>> /\ subject[q] # <<>>
        /\ subject[p][1][1] # subject[q][1][1]
        /\ Len(AllRecords(store, cursor[p]).records) = 2
        /\ GetPieceCidToCursor(store, pieceCid[p]).cursor
               = GetPieceCidToCursor(store, pieceCid[q]).cursor

\* a step of caller p in which the store raises an error: the Get, Put or
\* Sync of storeIndex, the Get or Query of loadIndexFromDb, or a result of
\* the iteration
StoreRaises(p) ==
    \/ StoreNextCursor(p, TRUE)
    \/ StoreSetNextCursor(p, TRUE)
    \/ StoreSetPieceCidToCursor(p, TRUE)
    \/ StoreAddOffset(p, TRUE)
    \/ StoreSync(p, TRUE)
    \/ LoadGetPieceCidToCursor(p, TRUE)
    \/ LoadAllRecords(p, TRUE)
    \/ LoadNextSyncError(p)

\* C11: a step in which the store raises an error ends the call, which
\* returns that error to its caller; the store is not touched again
C11_ErrorsReturned ==
    [][\A p \in Procs :
          StoreRaises(p) =>
              /\ pc'[p] = "idle"
              /\ err'[p] = "io"
              /\ store' = store]_vars

\* C12: a storeIndex call given an index that is not iterable does not end
\* in a panic and leaves the store as it found it: as long as the call holds
\* the cursor it read, the counter still holds that value and the piece is
\* not bound to it
C12_UnsupportedLeavesStore ==
    \A p \in Procs :
        (op[p] = "storeIndex" /\ callId[p] # 0 /\ ~iterable[p]) =>
            /\ pc[p] # "panic"
            /\ HoldsCursor(p) =>
                  /\ NextCursor(store).cursor = cursor[p]
                  /\ GetPieceCidToCursor(store, pieceCid[p])
                         # [err |-> "nil", cursor |-> cursor[p]]

\* the step by which the storeIndex call of p ends, returning nil or an error
ImportEnds(p) ==
    /\ HoldsCursor(p) /\ pc[p] # "stored"
    /\ pc'[p] \in {"idle", "stored"}

\* C13: when an import ends and leaves its piece bound to its cursor, every
\* entry write of the import was made: the namespace of the cursor holds an
\* entry for each hash of the index
C13_RegistryComplete ==
    [][\A p \in Procs :
          (/\ ImportEnds(p)
           /\ GetPieceCidToCursor(store', pieceCid[p])
                  = [err |-> "nil", cursor |-> cursor[p]]) =>
              /\ pos[p] = Len(subject[p])
              /\ \A r \in Entries(subject[p]) :
                    OffsetKey(keyCursorPrefix[p], r[1])
                        \in QueryKeys(store', PutUvarint(cursor[p]))]_vars

\* the steps of one storeIndex call, in the order the claim gives them, and
\* the ways out of the call
StepOrder ==
    {<<"idle", "NextCursor">>, <<"NextCursor", "SetNextCursor">>,
     <<"SetNextCursor", "SetPieceCidToCursor">>,
     <<"SetPieceCidToCursor", "ForEach">>, <<"ForEach", "stored">>,
     <<"ForEach", "panic">>}
        \cup {<<x, "idle">> : x \in {"NextCursor", "SetNextCursor",
                                     "SetPieceCidToCursor", "ForEach"}}

\* C14: a storeIndex call reads the counter, then advances it, then writes
\* the registry entry, then the namespace entries, and syncs after all of
\* them: the counter is written by a call that has read it and written
\* nothing else, the registry by a call that has advanced the counter, an
\* entry by a call whose piece is bound to its cursor, and the sync is
\* issued with every entry of the index written by the call
C14_StepOrder ==
    [][phase = "run" =>
        /\ \A p \in Procs :
              (op'[p] = "storeIndex" /\ pc'[p] # pc[p]) =>
                  <<pc[p], pc'[p]>> \in StepOrder
        /\ Get(store', dskeyNextCursor) # Get(store, dskeyNextCursor) =>
              \E p \in Procs :
                  /\ pc[p] = "SetNextCursor"
                  /\ NextCursor(store).cursor = cursor[p]
                  /\ \A w \in written : w.call # callId[p]
        /\ (\E c \in PieceCids :
                Get(store', PieceKey(c)) # Get(store, PieceKey(c))) =>
              \E p \in Procs :
                  /\ pc[p] = "SetPieceCidToCursor"
                  /\ NextCursor(store).cursor = PlusOne(cursor[p])
                  /\ \A w \in written : w.call # callId[p]
        /\ \A w \in written' \ written :
              \E p \in Procs :
                  /\ pc[p] = "ForEach" /\ w.call = callId[p]
                  /\ GetPieceCidToCursor(store, pieceCid[p])
                         = [err |-> "nil", cursor |-> cursor[p]]
        /\ \A p \in Procs :
              (StoreSync(p, TRUE) \/ StoreSync(p, FALSE)) =>
                  \A r \in Entries(subject[p]) :
                      \E w \in written :
                          /\ w.call = callId[p] /\ w.m = r[1]
                          /\ w.key \in DOMAIN store]_vars

\* a call that made every step: counter, registry, two entries, sync
C14_Witness ==
    /\ pc[1] = "stored"
    /\ Len(subject[1]) = 2
    /\ Cardinality({w \in written : w.call = callId[1]}) = 2
    /\ NextCursor(store).cursor = PlusOne(cursor[1])
    /\ GetPieceCidToCursor(store, pieceCid[1]).cursor = cursor[1]

\* the step by which the storeIndex call of p fails, after it read the counter
ImportFails(p) == ImportEnds(p) /\ pc'[p] = "idle" /\ err'[p] # "nil"

\* C15: a storeIndex call that fails at the counter write, the registry
\* write or an entry write leaves a store from which the retry, the next
\* call under single-writer discipline, reads a cursor other than the failed
\* call's, and nothing the failed call wrote lies in the namespace of the
\* cursor the retry reads
C15_RetryFresh ==
    [][\A p \in Procs :
          ImportFails(p) =>
              /\ NextCursor(store').cursor # cursor[p]
              /\ \A w \in written' :
                    w.call = callId[p] =>
                        w.cursor # NextCursor(store').cursor]_vars

\* the cursors of the imports that are over: entries were written under them
\* by a call that has returned
Completed == {w.cursor : w \in {x \in written : \A p \in Procs : callId[p] # x.call}}

\* C16: no step adds, removes or changes an entry of the namespace of an
\* import that is over: AllRecords of its cursor returns what it returned
\* before the step
C16_NamespaceFrozen ==
    [][store' # store =>
          \A c \in Completed :
              AllRecords(store', c) = AllRecords(store, c)]_vars

\* a piece was imported twice: its first namespace still holds its entries
\* and no registry entry leads to it
C16_Witness ==
    /\ pc[1] = "idle"
    /\ \E c \in PieceCids : bound = {c}
    /\ \E w1, w2 \in written :
          /\ w1.call # w2.call /\ w1.cursor # w2.cursor /\ w1.m = w2.m
          /\ Len(AllRecords(store, w1.cursor).records) > 0
          /\ Len(AllRecords(store, w2.cursor).records) > 0
          /\ \A c \in bound : GetPieceCidToCursor(store, c).cursor = w2.cursor

\* C17: a storeIndex call that read and advanced the counter leaves the
\* counter one higher than the value it read, binds its piece to the value
\* read, and writes the system key in that one step only; the first call on
\* a counter of 100 obtains 100
C17_AllocateOnce ==
    [][\A p \in Procs :
          /\ (pc[p] = "SetNextCursor" /\ pc'[p] = "SetPieceCidToCursor") =>
                /\ NextCursor(store).cursor = cursor[p]
                /\ NextCursor(store').cursor = PlusOne(cursor[p])
                /\ Less(cursor[p], NextCursor(store').cursor)
                /\ obtained' = Append(obtained, cursor[p])
                /\ (obtained = <<>> /\ NextCursor(store).cursor = Hundred) =>
                      obtained'[1] = Hundred
          /\ (pc[p] = "SetPieceCidToCursor" /\ pc'[p] = "ForEach") =>
                /\ GetPieceCidToCursor(store', pieceCid[p])
                       = [err |-> "nil", cursor |-> cursor[p]]
                /\ cursor[p] = obtained[Len(obtained)]
          /\ (op[p] = "storeIndex" /\ pc[p] # "SetNextCursor") =>
                Get(store', dskeyNextCursor) = Get(store, dskeyNextCursor)]_vars

\* the cursors imports obtained: read from the counter by a storeIndex call
\* still running, or read and advanced by any call
Obtained ==
    {obtained[i] : i \in 1..Len(obtained)}
        \cup {cursor[p] : p \in {q \in Procs : HoldsCursor(q)}}

\* the values from the start on that the imports of one run can reach
Candidates == {U64(n) : n \in 100..(100 + MaxImports + 1)}

\* an import obtained v and no import obtained some u, start <= u < v
Skipped ==
    \E v \in Obtained, u \in Candidates : Less(u, v) /\ u \notin Obtained

\* two concurrent calls observed the same counter value and both advanced it
Raced ==
    \E p, q \in Procs :
        /\ SameCursor(p, q)
        /\ pc[p] # "SetNextCursor" /\ pc[q] # "SetNextCursor"

RegistryKeys == {PieceKey(c) : c \in PieceCids}

\* the namespace entries written under cursors from 100 on
NamespaceEntries == {w \in written : ~Less(w.cursor, Hundred)}

\* the probe cursors are tried once in a call, when it has just advanced
\* the counter
Probes ==
    IF \E p \in Procs : pc[p] = "SetPieceCidToCursor" THEN ProbeCursors
    ELSE {}

\* namespace-entry keys of cursors from 100 on: those written, and those of
\* the probe cursors for every hash
EntryKeys ==
    {w.key : w \in NamespaceEntries}
        \cup {OffsetKey(PrefixOf(n), r[1]) : n \in Probes, r \in Records}

\* C19: the system key, the registry keys and the namespace-entry keys of
\* cursors from 100 on are pairwise distinct; the counter holds what the
\* last SetNextCursor wrote, each bound piece a cursor that was obtained,
\* each entry an offset of its hash; and the keys AllRecords(c) scans hold
\* neither the system key nor a registry key.  The store changes in the
\* steps that lead to SetPieceCidToCursor and ForEach, so these are the
\* states to look at.
C19_KeyClassesDisjoint ==
    (\E p \in Procs : pc[p] \in {"SetPieceCidToCursor", "ForEach"}) =>
        LET registry == RegistryKeys
            entries == EntryKeys
            reserved == {dskeyNextCursor} \cup registry
        IN  /\ dskeyNextCursor \notin registry \cup entries
            /\ registry \cap entries = {}
            /\ Cardinality(registry) = Cardinality(PieceCids)
            /\ NextCursor(store).cursor = PlusOne(obtained[Len(obtained)])
            /\ \A c \in bound :
                  \E i \in 1..Len(obtained) :
                      GetPieceCidToCursor(store, c)
                          = [err |-> "nil", cursor |-> obtained[i]]
            /\ \A w \in NamespaceEntries :
                  \E r \in Records :
                      r[1] = w.m /\ Get(store, w.key).b = PutUvarint(r[2])
            /\ \A n \in Probes \cup {w.cursor : w \in NamespaceEntries} :
                  QueryKeys(store, PutUvarint(n)) \cap reserved = {}

\* counter, both registry entries and entries of two namespaces are stored
C19_Witness ==
    /\ pc[1] = "ForEach"
    /\ bound = PieceCids
    /\ \E w1, w2 \in NamespaceEntries :
          /\ w1.cursor # w2.cursor
          /\ {w1.key, w2.key} \subseteq DOMAIN store
    /\ dskeyNextCursor \in DOMAIN store

\* C20, as claimed: every stored value, the counter, a registry cursor or an
\* entry offset, is exactly 8 bytes long
C20_EightBytes == \A k \in DOMAIN store : Len(store[k]) = 8

\* C20, amended: every stored value is exactly size bytes long, the ten
\* bytes of binary.MaxVarintLen64, whatever number it holds
C20_ValueLength == \A k \in DOMAIN store : Len(store[k]) = size

\* the counter, a registry cursor and an entry offset are stored, of one,
\* two and ten varint bytes
C20_Witness ==
    /\ dskeyNextCursor \in DOMAIN store
    /\ \E c \in bound : PieceKey(c) \in DOMAIN store
    /\ \E w \in written :
          /\ w.key \in DOMAIN store
          /\ VarintLen(Uvarint(store[w.key])) = 2
          /\ VarintLen(w.cursor) = size
    /\ VarintLen(NextCursor(store).cursor) = 1

====
